---- MODULE Spec2Model ----
(***************************************************************************)
(* DUDE & DIRT lawn-care booking application (app.py).                     *)
(*                                                                         *)
(* The booking wizard keeps its draft in the Flask session under the key   *)
(* 'booking_data'.  The application configures only a SECRET_KEY, so the   *)
(* session is Flask's signed-cookie session: every request works on its    *)
(* own copy of the session decoded from the cookie the browser sent, and   *)
(* the copy is written back (Set-Cookie) at the end of the request only    *)
(* when the session object was marked modified.  An assignment to a key    *)
(* of the session itself (session['booking_data'] = ..., session.pop)      *)
(* marks it; a mutation inside the dict stored under 'booking_data' does   *)
(* not.  Every booking route is @login_required: loading the user may      *)
(* itself write the session (Flask-Login's session protection resets       *)
(* '_fresh' when the client identifier changed), which marks it modified   *)
(* for that request; this is the request input fresh_reset.                *)
(*                                                                         *)
(* Money is in cents.  One authenticated user (the demo user) is modelled. *)
(***************************************************************************)
EXTENDS Integers, Sequences, FiniteSets, TLC

(* ------------------------------ bounds -------------------------------- *)
\* Bookings the wizard may create in one run.
MaxBookings == 2
\* Drafts (chooseService calls and products-page visits) in one run.
MaxDrafts == 2
\* Confirm requests that may be in flight at the same time.
MaxInflight == 2

(* --------------------------- Python values ---------------------------- *)
\* Python None / JSON null, where a number is expected.
PyNone == -1000000

\* A Python dict is a function from its keys; {} is the empty function.
EmptyDict == [k \in {} |-> 0]

Has(d, k) == k \in DOMAIN d

\* d.get(k, default)
Get(d, k, default) == IF k \in DOMAIN d THEN d[k] ELSE default

\* d[k] = v
Put(d, k, v) == [x \in DOMAIN d \cup {k} |-> IF x = k THEN v ELSE d[x]]

\* d.update(e)
Update(d, e) == [x \in DOMAIN d \cup DOMAIN e |-> IF x \in DOMAIN e THEN e[x] ELSE d[x]]

\* d.pop(k, None)
Pop(d, k) == [x \in DOMAIN d \ {k} |-> d[x]]

(* ---------------------------- the database ---------------------------- *)
\* The demo user created first by init_database.
current_user_id == 1

\* Service rows created by init_database, ids by autoincrement; price in cents.
ServicePrice == (1 :> 5000) @@ (2 :> 7500) @@ (3 :> 6500) @@ (4 :> 10000)
                @@ (5 :> 8500) @@ (6 :> 6000)

\* Service.query.get(id) finds a row
ServiceExists(id) == id \in DOMAIN ServicePrice

\* The two sample bookings init_database creates for the demo user.
SampleBookings ==
  << [id |-> 1, user_id |-> 1, service_id |-> 1,
      scheduled_date |-> [date |-> "now+7d", time |-> "now"], status |-> "confirmed",
      special_instructions |-> "Please trim around the flower beds carefully",
      total_price |-> 5000],
     [id |-> 2, user_id |-> 1, service_id |-> 2,
      scheduled_date |-> [date |-> "now-30d", time |-> "now"], status |-> "completed",
      special_instructions |-> "Spring fertilization",
      total_price |-> 7500] >>

(* ------------------------- date and time parsing ----------------------- *)
\* Strings that match "%Y-%m-%d" and "%H:%M".
WellFormedDates == {"2025-06-01"}
WellFormedTimes == {"09:00"}

\* datetime.strptime(f"{date} {time}", "%Y-%m-%d %H:%M") does not raise
Parses(date, time) == date \in WellFormedDates /\ time \in WellFormedTimes

\* its value
strptime(date, time) == [date |-> date, time |-> time]

(* ---------------------------- request bodies --------------------------- *)
\* service_id values a client sends: an existing service and an absent one.
ServiceIdInputs == {3, 7}
\* price values a client sends with a service: the catalogue price and another.
PriceInputs == {6500, 100}
\* products lists a client sends.
ProductsInputs == { << [id |-> 2, price |-> 4599] >> }
\* products_total values a client sends: a number, or null.
ProductsTotalInputs == {4599, PyNone}
\* scheduled_date values a client sends: well formed, and malformed.
DateInputs == {"2025-06-01", "06/01/2025"}
TimeInputs == {"09:00"}
InstructionsInputs == {"Back gate"}

\* JSON bodies of POST /booking/step2 that carry service_id.
ServiceBodies ==
  { [service_id |-> s, service_name |-> "Weed Control", price |-> p] :
      s \in ServiceIdInputs, p \in PriceInputs }
  \cup { [service_id |-> s] : s \in ServiceIdInputs }

\* JSON bodies of POST /booking/step2 that carry products and no service_id.
ProductsBodies ==
  { [products |-> ps] : ps \in ProductsInputs }
  \cup { [products |-> ps, products_total |-> t] :
           ps \in ProductsInputs, t \in ProductsTotalInputs }

\* JSON bodies of POST /booking/step3.
ScheduleBodies ==
  { [scheduled_date |-> d, scheduled_time |-> t] : d \in DateInputs, t \in TimeInputs }
  \cup { [scheduled_date |-> d, scheduled_time |-> t, special_instructions |-> i] :
           d \in DateInputs, t \in TimeInputs, i \in InstructionsInputs }
  \cup { [scheduled_time |-> t] : t \in TimeInputs }

(* ------------------------------ responses ------------------------------ *)
\* What a handler hands back: the request's session object as the handler
\* left it, whether the handler marked it modified, the response, and the
\* Booking table.
Result(sess, modified, response, rows) ==
  [session |-> sess, modified |-> modified, response |-> response, rows |-> rows]

(* ------------------------------- handlers ------------------------------ *)
\* GET /booking/step1
booking_step1(sess, rows) == Result(sess, FALSE, "render", rows)

\* /booking/step2; data is the JSON body of a POST
booking_step2(method, data, sess, rows) ==
  LET tail == IF ~Has(sess, "booking_data")
              THEN Result(sess, FALSE, "redirect_step1", rows)
              ELSE Result(sess, FALSE, "render", rows)
  IN IF method = "POST"
     THEN IF Has(data, "service_id")
          THEN IF ~(Has(data, "service_name") /\ Has(data, "price"))
               THEN Result(sess, FALSE, "error_processing", rows)   \* KeyError
               ELSE Result(Put(sess, "booking_data",
                               [service_id |-> data["service_id"],
                                service_name |-> data["service_name"],
                                price |-> data["price"]]),
                           TRUE, "success", rows)
          ELSE IF Has(data, "products")
          THEN IF ~Has(sess, "booking_data")
               THEN Result(sess, FALSE, "no_booking_data", rows)
               ELSE LET bd1 == Put(sess["booking_data"], "products", data["products"])
                        bd2 == Put(bd1, "products_total", Get(data, "products_total", 0))
                    IN Result([sess EXCEPT !["booking_data"] = bd2], FALSE, "success", rows)
          ELSE tail
     ELSE tail

\* booking_step3 without its draft check: schedule starts a draft of its own.
booking_step3_unchecked(method, data, sess, rows) ==
  IF method = "POST"
  THEN IF ~(Has(data, "scheduled_date") /\ Has(data, "scheduled_time"))
       THEN Result(sess, FALSE, "error_processing", rows)
       ELSE Result(Put(sess, "booking_data",
                       Update(Get(sess, "booking_data", EmptyDict),
                              [scheduled_date |-> data["scheduled_date"],
                               scheduled_time |-> data["scheduled_time"],
                               special_instructions |->
                                  Get(data, "special_instructions", "")])),
                   TRUE, "success", rows)
  ELSE IF ~Has(sess, "booking_data")
       THEN Result(sess, FALSE, "redirect_step1", rows)
       ELSE Result(sess, FALSE, "render", rows)

\* /booking/step3
booking_step3(method, data, sess, rows) ==
  IF method = "POST"
  THEN IF ~Has(sess, "booking_data")
       THEN Result(sess, FALSE, "no_booking_data", rows)
       ELSE IF ~(Has(data, "scheduled_date") /\ Has(data, "scheduled_time"))
       THEN Result(sess, FALSE, "error_processing", rows)           \* KeyError
       ELSE LET bd == Update(sess["booking_data"],
                             [scheduled_date |-> data["scheduled_date"],
                              scheduled_time |-> data["scheduled_time"],
                              special_instructions |->
                                 Get(data, "special_instructions", "")])
            IN Result([sess EXCEPT !["booking_data"] = bd], FALSE, "success", rows)
  ELSE IF ~Has(sess, "booking_data")
       THEN Result(sess, FALSE, "redirect_step1", rows)
       ELSE Result(sess, FALSE, "render", rows)

\* total_price taken from the price the draft recorded at chooseService.
total_price_from_draft(booking_data) ==
  booking_data["price"] + Get(booking_data, "products_total", 0)

\* total_price = service.price + booking_data.get('products_total', 0)
total_price(booking_data) ==
  ServicePrice[booking_data["service_id"]] + Get(booking_data, "products_total", 0)

\* The row is written although the commit failed.
commit_partial(rows, booking, commit_ok) == Append(rows, booking)

\* db.session.add(booking); db.session.commit(): the table afterwards.  A
\* commit that raises leaves the table as it was (the handler rolls back).
commit(rows, booking, commit_ok) == IF commit_ok THEN Append(rows, booking) ELSE rows

\* The draft is left in the session.
clear_draft_forgotten(sess) == sess

\* session.pop('booking_data', None)
clear_draft(sess) == Pop(sess, "booking_data")

\* The draft is dropped on the failure path as well.
confirm_failed_clearing(sess, rows) ==
  Result(Pop(sess, "booking_data"), TRUE, "error_confirming", rows)

\* except Exception: db.session.rollback(); 'Error confirming booking'
confirm_failed(sess, rows) == Result(sess, FALSE, "error_confirming", rows)

\* /booking/step4; commit_ok: db.session.commit() does not raise
booking_step4(method, sess, rows, commit_ok) ==
  IF ~Has(sess, "booking_data")
  THEN Result(sess, FALSE, "redirect_step1", rows)
  ELSE IF method = "POST"
  THEN LET booking_data == sess["booking_data"]
       IN IF ~ServiceExists(booking_data["service_id"])
          THEN Result(sess, FALSE, "service_not_found", rows)
          ELSE IF ~(Has(booking_data, "scheduled_date") /\ Has(booking_data, "scheduled_time"))
          THEN confirm_failed(sess, rows)                            \* KeyError
          ELSE IF ~Parses(booking_data["scheduled_date"], booking_data["scheduled_time"])
          THEN confirm_failed(sess, rows)                            \* ValueError
          ELSE IF Get(booking_data, "products_total", 0) = PyNone
          THEN confirm_failed(sess, rows)                            \* TypeError
          ELSE LET booking ==
                     [id |-> Len(rows) + 1,
                      user_id |-> current_user_id,
                      service_id |-> booking_data["service_id"],
                      scheduled_date |-> strptime(booking_data["scheduled_date"],
                                                  booking_data["scheduled_time"]),
                      status |-> "confirmed",
                      special_instructions |->
                         Get(booking_data, "special_instructions", ""),
                      total_price |-> total_price(booking_data)]
               IN IF commit_ok
                  THEN Result(clear_draft(sess), TRUE, "success",
                              commit(rows, booking, commit_ok))
                  ELSE confirm_failed(sess, commit(rows, booking, commit_ok))
  ELSE Result(sess, FALSE, "render", rows)

\* The draft the products page starts.
ProductPurchaseDraft ==
  [service_id |-> 1, service_name |-> "Product Purchase", price |-> 0]

\* The products page starts a draft only when the session holds none.
products_keeping_draft(sess, rows) ==
  IF Has(sess, "booking_data")
  THEN Result(sess, FALSE, "render", rows)
  ELSE Result(Put(sess, "booking_data", ProductPurchaseDraft), TRUE, "render", rows)

\* GET /products
products(sess, rows) ==
  Result(Put(sess, "booking_data",
             [service_id |-> 1, service_name |-> "Product Purchase", price |-> 0]),
         TRUE, "render", rows)

\* The session the browser holds after the request: the request's session is
\* written to the cookie only when it was marked modified.
save_session(before, after, modified) == IF modified THEN after ELSE before

(* ============================== weather =============================== *)
(* /api/weather keeps the provider's answers in the file weather_cache.json: *)
(* a JSON object from cache key to {data, timestamp}.  Time is in hours.     *)

(* ------------------------------- bounds -------------------------------- *)
\* Hours the clock may reach.
MaxTime == 2
\* Weather requests in one run.
MaxCalls == 2
\* Requests the server handles at the same time.
MaxWorkers == 2

\* timedelta(hours=2)
CacheHours == 2

(* ------------------------------ locations ------------------------------ *)
\* A location is a string: a sequence of characters.
LocationInputs == { << "A", " ", "b" >>, << "C" >> }

\* str.lower(), character by character
lower(c) == CASE c = "A" -> "a" [] c = "B" -> "b" [] c = "C" -> "c" [] OTHER -> c

\* str.replace(' ', '_'), character by character
replace_space(c) == IF c = " " THEN "_" ELSE c

\* f"weather_{location.lower().replace(' ', '_')}"
cache_key(location) ==
  << "weather_" >> \o [i \in 1..Len(location) |-> replace_space(lower(location[i]))]

(* ------------------------------ timestamps ----------------------------- *)
\* datetime.now().isoformat(): the text of the time t
isoformat(t) == << "iso", t >>

\* datetime.fromisoformat(text) does not raise
IsIsoFormat(text) == Len(text) = 2 /\ text[1] = "iso"

\* datetime.fromisoformat(text)
fromisoformat(text) == text[2]

\* Valid up to and including two hours.
is_cache_valid_inclusive(cached_time, t) ==
  IF IsIsoFormat(cached_time) THEN t - fromisoformat(cached_time) <= CacheHours ELSE FALSE

\* is_cache_valid(cached_time), evaluated at time t
is_cache_valid(cached_time, t) ==
  IF IsIsoFormat(cached_time) THEN t - fromisoformat(cached_time) < CacheHours ELSE FALSE

(* ------------------------------ the file ------------------------------- *)
\* The keys of a mapping in a fixed order.
KeyOrder(m) ==
  CHOOSE s \in [1..Cardinality(DOMAIN m) -> DOMAIN m] : \A k \in DOMAIN m : \E i \in DOMAIN s : s[i] = k

\* json.dump(cache_data, f, indent=2): the text written, piece by piece
json_dump(m) ==
  << [t |-> "{"] >>
  \o [i \in 1..Cardinality(DOMAIN m) |-> [t |-> "member", key |-> KeyOrder(m)[i], value |-> m[KeyOrder(m)[i]]]]
  \o << [t |-> "}"] >>

\* the text is a complete JSON object
IsJson(text) ==
  /\ Len(text) >= 2
  /\ text[1].t = "{"
  /\ text[Len(text)].t = "}"
  /\ \A i \in 2..(Len(text) - 1) : text[i].t = "member"

\* json.load(f) of a complete JSON object
json_load(text) ==
  LET members == { i \in 2..(Len(text) - 1) : TRUE }
      keys == { text[i].key : i \in members }
  IN [k \in keys |-> text[CHOOSE i \in members : text[i].key = k].value]

\* weather_cache.json does not exist
NoFile == [exists |-> FALSE, text |-> << >>]

\* load_weather_cache(); read_ok: opening and reading the file does not raise
load_weather_cache(file, read_ok) ==
  IF ~file.exists THEN EmptyDict
  ELSE IF ~read_ok THEN EmptyDict
  ELSE IF ~IsJson(file.text) THEN EmptyDict
  ELSE json_load(file.text)

\* open(cache_file, 'w'): the file exists and is empty
open_w(file) == [exists |-> TRUE, text |-> << >>]

\* f.write(...) through a handle opened with 'w': the pieces go to the start
\* of the file, over what is there; what lies beyond them stays.
write(file, pieces) ==
  [exists |-> TRUE,
   text |-> pieces \o SubSeq(file.text, Len(pieces) + 1, Len(file.text))]

\* The outcomes of a save: done; open() raised; the write raised after the
\* first piece was written.
WriteOutcomes == {"ok", "open_raises", "write_raises"}

\* save_weather_cache(cache_data), run without interruption: the file
\* afterwards.  Every exception is caught and logged, nothing is returned.
save_weather_cache(file, cache_data, outcome) ==
  CASE outcome = "ok" -> write(open_w(file), json_dump(cache_data))
    [] outcome = "open_raises" -> file
    [] outcome = "write_raises" -> write(open_w(file), SubSeq(json_dump(cache_data), 1, 1))

(* ----------------------------- the provider ---------------------------- *)
\* Temperatures the provider may report.
ProviderTemperatures == {70, 75}

\* What requests.get(WEATHER_API_URL, ...) and response.json() can do:
\* raise a RequestException (connection error, timeout), answer with a status
\* other than 200, answer 200 with an 'error' member, answer 200 with the
\* weather of the location, answer 200 with the JSON value null, answer 200
\* with a body that is not JSON.  In the last case response.json() raises an
\* exception that is a RequestException in some versions of requests and is
\* not in others (caught).
ProviderOutcomes(location) ==
  { [kind |-> "exception"], [kind |-> "timeout"], [kind |-> "status"],
    [kind |-> "error"], [kind |-> "null"] }
  \cup { [kind |-> "not_json", caught |-> b] : b \in BOOLEAN }
  \cup { [kind |-> "ok",
          data |-> [location |-> [name |-> location],
                    current |-> [temperature |-> t]]] : t \in ProviderTemperatures }

\* get_mock_weather_data(location)
get_mock_weather_data(location) ==
  [location |-> [name |-> location, region |-> "Local Area"],
   current |-> [temperature |-> 72,
                weather_descriptions |-> << "Partly Cloudy" >>]]

(* ----------------------------- get_weather ----------------------------- *)
\* The cache holds an entry for the key that is_cache_valid accepts.
cache_hit(cache, key, t) ==
  /\ key \in DOMAIN cache
  /\ is_cache_valid(cache[key].timestamp, t)

\* jsonify(...) of the cached entry
cached_response(cache, key) ==
  [success |-> TRUE, data |-> cache[key].data, cached |-> TRUE,
   timestamp |-> cache[key].timestamp, status |-> 200]

\* jsonify(...) of the provider's data
fetched_response(data, t) ==
  [success |-> TRUE, data |-> data, cached |-> FALSE,
   timestamp |-> isoformat(t), status |-> 200]

\* jsonify(...) of the fallback
mock_response(location, t) ==
  [success |-> TRUE, data |-> get_mock_weather_data(location), cached |-> FALSE,
   mock |-> TRUE, timestamp |-> isoformat(t), status |-> 200]

\* the outermost except Exception
error_response ==
  [success |-> FALSE, error |-> "Weather service temporarily unavailable", status |-> 500]

\* The fallback is cached like the provider's data.
after_fetch_caching_mock(location, cache, outcome, t) ==
  IF outcome.kind = "ok"
    THEN [save |-> TRUE,
          cache |-> Put(cache, cache_key(location),
                        [data |-> outcome.data, timestamp |-> isoformat(t)]),
          response |-> fetched_response(outcome.data, t)]
    ELSE [save |-> TRUE,
          cache |-> Put(cache, cache_key(location),
                        [data |-> get_mock_weather_data(location),
                         timestamp |-> isoformat(t)]),
          response |-> mock_response(location, t)]

\* A status other than 200 is raised as an error.
after_fetch_status_raises(location, cache, outcome, t) ==
  IF outcome.kind = "ok"
    THEN [save |-> TRUE,
          cache |-> Put(cache, cache_key(location),
                        [data |-> outcome.data, timestamp |-> isoformat(t)]),
          response |-> fetched_response(outcome.data, t)]
    ELSE [save |-> FALSE, cache |-> cache,
          response |-> IF outcome.kind = "status"
                         THEN error_response
                         ELSE mock_response(location, t)]

\* get_weather from the provider's answer on: what to save, what to answer.
after_fetch(location, cache, outcome, t) ==
  CASE outcome.kind = "ok" ->
         [save |-> TRUE,
          cache |-> Put(cache, cache_key(location),
                        [data |-> outcome.data, timestamp |-> isoformat(t)]),
          response |-> fetched_response(outcome.data, t)]
    [] outcome.kind \in {"exception", "timeout", "status", "error"} ->
         [save |-> FALSE, cache |-> cache,
          response |-> mock_response(location, t)]
    [] outcome.kind = "null" ->
         [save |-> FALSE, cache |-> cache, response |-> error_response]
    [] outcome.kind = "not_json" ->
         [save |-> FALSE, cache |-> cache,
          response |-> IF outcome.caught
                         THEN mock_response(location, t)
                         ELSE error_response]

\* weather_status(): jsonify(...) with len(cache)
weather_status(file, read_ok) ==
  [success |-> TRUE, cache_entries |-> Cardinality(DOMAIN load_weather_cache(file, read_ok)),
   status |-> 200]

(* -------------------------------- state -------------------------------- *)
VARIABLES
  session,     \* the session cookie the user's browser holds (a dict)
  bookings,    \* the Booking table, in id order
  inflight,    \* session cookies carried by POST /booking/step4 requests in flight
  last,        \* the latest request answered: operation, input, session received, response
  made,        \* how many chooseService calls and products-page visits succeeded so far
  since,       \* which of the two were made since the latest successful confirm
  confirms,    \* how many confirm calls reported success
  path,        \* bodies of the requests that so far follow the happy path, in order
  cacheFile,   \* weather_cache.json: whether it exists, and its text
  now,         \* the clock, in hours
  call,        \* the /api/weather request each worker is handling, and how far it is
  wlast,       \* the latest weather request answered
  stats        \* counts and records kept for the properties

booking_vars == << session, bookings, inflight, last, made, since, confirms, path >>

weather_vars == << cacheFile, now, call, wlast, stats >>

vars == << session, bookings, inflight, last, made, since, confirms, path,
           cacheFile, now, call, wlast, stats >>

Workers == 1..MaxWorkers

NoResponse == [success |-> FALSE, status |-> 0]

\* A worker that handles no /api/weather request.
Idle ==
  [pc |-> "idle", location |-> << >>, loaded |-> EmptyDict, loaded_at |-> 0,
   kind |-> "none", cache |-> EmptyDict, saved |-> FALSE, response |-> NoResponse]

NoWeatherRequest == [op |-> "none", status |-> 0, cache_entries |-> 0]

NoRequest == [op |-> "none", data |-> EmptyDict, seen |-> EmptyDict, response |-> "none"]

Init ==
  /\ session = EmptyDict
  /\ bookings = SampleBookings
  /\ inflight = << >>
  /\ last = NoRequest
  /\ made = [chooseService |-> 0, products |-> 0]
  /\ since = {}
  /\ confirms = 0
  /\ path = << >>
  /\ cacheFile = NoFile
  /\ now = 0
  /\ call = [p \in Workers |-> Idle]
  /\ wlast = NoWeatherRequest
  /\ stats = [calls |-> 0, outbound |-> 0, everCached |-> EmptyDict]

\* The browser receives the response r to a request that carried the cookie
\* sent: it keeps its cookie unless the response sets a new one.
Respond(op, data, sent, r, fresh_reset) ==
  /\ session' = save_session(session, r.session, r.modified \/ fresh_reset)
  /\ bookings' = r.rows
  /\ last' = [op |-> op, data |-> data, seen |-> sent, response |-> r.response]
  /\ UNCHANGED weather_vars

DraftsLeft == made.chooseService + made.products < MaxDrafts
BookingsLeft == Len(bookings) < Len(SampleBookings) + MaxBookings

(* ------------------------------- requests ------------------------------ *)
\* GET /booking/step1
ViewStep1 ==
  \E fresh_reset \in BOOLEAN :
    /\ Respond("viewStep1", EmptyDict, session, booking_step1(session, bookings), fresh_reset)
    /\ path' = << >>
    /\ UNCHANGED << inflight, made, since, confirms >>

\* POST /booking/step2 with service_id
ChooseService ==
  \E data \in ServiceBodies, fresh_reset \in BOOLEAN :
    LET r == booking_step2("POST", data, session, bookings)
        ok == r.response = "success"
    IN /\ DraftsLeft
       /\ Respond("chooseService", data, session, r, fresh_reset)
       /\ made' = IF ok THEN [made EXCEPT !.chooseService = @ + 1] ELSE made
       /\ since' = IF ok THEN since \cup {"chooseService"} ELSE since
       /\ path' = IF ok /\ ServiceExists(data["service_id"]) THEN << data >> ELSE << >>
       /\ UNCHANGED << inflight, confirms >>

\* POST /booking/step2 with products
ChooseProducts ==
  \E data \in ProductsBodies, fresh_reset \in BOOLEAN :
    /\ Respond("chooseProducts", data, session,
               booking_step2("POST", data, session, bookings), fresh_reset)
    /\ path' = IF Len(path) = 1 /\ Get(data, "products_total", 0) # PyNone
               THEN Append(path, data) ELSE << >>
    /\ UNCHANGED << inflight, made, since, confirms >>

\* POST /booking/step2 with neither service_id nor products, and GET /booking/step2
ViewStep2 ==
  \E method \in {"GET", "POST"}, fresh_reset \in BOOLEAN :
    /\ Respond("viewStep2", EmptyDict, session,
               booking_step2(method, EmptyDict, session, bookings), fresh_reset)
    /\ path' = << >>
    /\ UNCHANGED << inflight, made, since, confirms >>

\* POST /booking/step3
Schedule ==
  \E data \in ScheduleBodies, fresh_reset \in BOOLEAN :
    /\ Respond("schedule", data, session,
               booking_step3("POST", data, session, bookings), fresh_reset)
    /\ path' = IF /\ Len(path) = 2
                  /\ Has(data, "scheduled_date")
                  /\ Parses(data["scheduled_date"], data["scheduled_time"])
               THEN Append(path, data) ELSE << >>
    /\ UNCHANGED << inflight, made, since, confirms >>

\* GET /booking/step3
ViewStep3 ==
  \E fresh_reset \in BOOLEAN :
    /\ Respond("viewStep3", EmptyDict, session,
               booking_step3("GET", EmptyDict, session, bookings), fresh_reset)
    /\ path' = << >>
    /\ UNCHANGED << inflight, made, since, confirms >>

\* The bookkeeping of an answered POST /booking/step4.
Confirmed(r) ==
  LET ok == r.response = "success"
  IN /\ confirms' = IF ok THEN confirms + 1 ELSE confirms
     /\ since' = IF ok THEN {} ELSE since
     /\ UNCHANGED made

\* POST /booking/step4, sent and answered with no other request in between
Confirm ==
  \E commit_ok \in BOOLEAN, fresh_reset \in BOOLEAN :
    LET r == booking_step4("POST", session, bookings, commit_ok)
    IN /\ BookingsLeft
       /\ Respond("confirm", [commit_ok |-> commit_ok], session, r, fresh_reset)
       /\ Confirmed(r)
       /\ path' = IF Len(path) = 3 /\ commit_ok
                  THEN Append(path, [commit_ok |-> commit_ok]) ELSE << >>
       /\ UNCHANGED inflight

\* GET /booking/step4
ViewStep4 ==
  \E fresh_reset \in BOOLEAN :
    /\ Respond("viewStep4", EmptyDict, session,
               booking_step4("GET", session, bookings, TRUE), fresh_reset)
    /\ path' = << >>
    /\ UNCHANGED << inflight, made, since, confirms >>

\* GET /products
VisitProducts ==
  \E fresh_reset \in BOOLEAN :
    /\ DraftsLeft
    /\ Respond("products", EmptyDict, session, products(session, bookings), fresh_reset)
    /\ made' = [made EXCEPT !.products = @ + 1]
    /\ since' = since \cup {"products"}
    /\ path' = << >>
    /\ UNCHANGED << inflight, confirms >>

\* The browser sends a POST /booking/step4 carrying its current cookie, before
\* the answer to the previous one arrived (the form is submitted again).
SendConfirm ==
  /\ Len(inflight) < MaxInflight
  /\ \A i \in 1..Len(inflight) : inflight[i] = session
  /\ inflight' = Append(inflight, session)
  /\ UNCHANGED << session, bookings, last, made, since, confirms, path >>
  /\ UNCHANGED weather_vars

\* The server answers one of the POST /booking/step4 requests in flight.
AnswerConfirm ==
  \E i \in 1..Len(inflight), commit_ok \in BOOLEAN, fresh_reset \in BOOLEAN :
    LET sent == inflight[i]
        r == booking_step4("POST", sent, bookings, commit_ok)
    IN /\ BookingsLeft
       /\ Respond("confirm", [commit_ok |-> commit_ok], sent, r, fresh_reset)
       /\ Confirmed(r)
       /\ path' = << >>
       /\ inflight' = SubSeq(inflight, 1, i - 1) \o SubSeq(inflight, i + 1, Len(inflight))

\* One browser, one request at a time.
Next ==
  \/ ViewStep1
  \/ ChooseService
  \/ ChooseProducts
  \/ ViewStep2
  \/ Schedule
  \/ ViewStep3
  \/ Confirm
  \/ ViewStep4
  \/ VisitProducts

Spec == Init /\ [][Next]_vars

\* The same, with confirm requests that overlap each other: the browser sends
\* nothing else while confirm requests are in flight.
NextConcurrent ==
  \/ (inflight = << >> /\ Next)
  \/ SendConfirm
  \/ AnswerConfirm

SpecConcurrent == Init /\ [][NextConcurrent]_vars

(* --------------------------- weather requests -------------------------- *)
\* GET /api/weather?location=... arrives at a worker.
StartWeather(p) ==
  \E location \in LocationInputs :
    /\ call[p].pc = "idle"
    /\ \A q \in Workers : q < p => call[q].pc # "idle"
    /\ stats.calls < MaxCalls
    /\ call' = [call EXCEPT ![p] =
                  [Idle EXCEPT !.pc = "load", !.location = location]]
    /\ stats' = [stats EXCEPT !.calls = @ + 1]
    /\ UNCHANGED << cacheFile, now, wlast >>
    /\ UNCHANGED booking_vars

\* cache = load_weather_cache() and the look-up of the key
Load(p) ==
  \E read_ok \in BOOLEAN :
    LET cache == load_weather_cache(cacheFile, read_ok)
        key == cache_key(call[p].location)
    IN /\ call[p].pc = "load"
       /\ call' = [call EXCEPT ![p] =
                     IF cache_hit(cache, key, now)
                       THEN [@ EXCEPT !.pc = "reply", !.loaded = cache, !.loaded_at = now,
                                      !.cache = cache, !.kind = "hit",
                                      !.response = cached_response(cache, key)]
                       ELSE [@ EXCEPT !.pc = "fetch", !.loaded = cache, !.loaded_at = now,
                                      !.cache = cache]]
       /\ UNCHANGED << cacheFile, now, wlast, stats >>
       /\ UNCHANGED booking_vars

\* requests.get(WEATHER_API_URL, ...) and what follows from its answer
Fetch(p) ==
  \E outcome \in ProviderOutcomes(call[p].location) :
    LET r == after_fetch(call[p].location, call[p].cache, outcome, now)
    IN /\ call[p].pc = "fetch"
       /\ call' = [call EXCEPT ![p] =
                     [@ EXCEPT !.pc = IF r.save THEN "save_open" ELSE "reply",
                               !.kind = outcome.kind,
                               !.cache = r.cache,
                               !.response = r.response]]
       /\ stats' = [stats EXCEPT !.outbound = @ + 1]
       /\ UNCHANGED << cacheFile, now, wlast >>
       /\ UNCHANGED booking_vars

\* save_weather_cache: open(cache_file, 'w')
SaveOpen(p) ==
  \E open_ok \in BOOLEAN :
    /\ call[p].pc = "save_open"
    /\ cacheFile' = IF open_ok THEN open_w(cacheFile)
                               ELSE save_weather_cache(cacheFile, call[p].cache, "open_raises")
    /\ call' = [call EXCEPT ![p].pc = IF open_ok THEN "save_write" ELSE "reply"]
    /\ UNCHANGED << now, wlast, stats >>
    /\ UNCHANGED booking_vars

\* save_weather_cache: json.dump(cache_data, f, indent=2) and the close
SaveWrite(p) ==
  \E write_ok \in BOOLEAN :
    LET key == cache_key(call[p].location)
        pieces == json_dump(call[p].cache)
    IN /\ call[p].pc = "save_write"
       /\ cacheFile' = write(cacheFile, IF write_ok THEN pieces ELSE SubSeq(pieces, 1, 1))
       /\ call' = [call EXCEPT ![p] = [@ EXCEPT !.pc = "reply", !.saved = write_ok]]
       /\ stats' = IF write_ok
                     THEN [stats EXCEPT !.everCached = Put(@, key, call[p].cache[key])]
                     ELSE stats
       /\ UNCHANGED << now, wlast >>
       /\ UNCHANGED booking_vars

\* The worker is killed between the open and the write.
Interrupt(p) ==
  /\ call[p].pc = "save_write"
  /\ call' = [call EXCEPT ![p] = Idle]
  /\ UNCHANGED << cacheFile, now, wlast, stats >>
  /\ UNCHANGED booking_vars

\* return jsonify(...)
Reply(p) ==
  /\ call[p].pc = "reply"
  /\ wlast' = [op |-> "weather", status |-> call[p].response.status, cache_entries |-> 0]
  /\ call' = [call EXCEPT ![p] = Idle]
  /\ UNCHANGED << cacheFile, now, stats >>
  /\ UNCHANGED booking_vars

\* GET /api/weather/status
WeatherStatus ==
  \E read_ok \in BOOLEAN :
    /\ wlast' = [op |-> "status",
                 status |-> weather_status(cacheFile, read_ok).status,
                 cache_entries |-> weather_status(cacheFile, read_ok).cache_entries]
    /\ stats.calls < MaxCalls
    /\ stats' = [stats EXCEPT !.calls = @ + 1]
    /\ UNCHANGED << cacheFile, now, call >>
    /\ UNCHANGED booking_vars

\* An hour passes.  A request takes seconds (the provider call times out
\* after ten): the hour changes between requests.
Tick ==
  /\ now < MaxTime
  /\ \A p \in Workers : call[p].pc = "idle"
  /\ now' = now + 1
  /\ UNCHANGED << cacheFile, call, wlast, stats >>
  /\ UNCHANGED booking_vars

\* The workers of the server, each handling one request at a time.
NextWeather ==
  \/ \E p \in Workers : StartWeather(p)
  \/ \E p \in Workers : Load(p)
  \/ \E p \in Workers : Fetch(p)
  \/ \E p \in Workers : SaveOpen(p)
  \/ \E p \in Workers : SaveWrite(p)
  \/ \E p \in Workers : Interrupt(p)
  \/ \E p \in Workers : Reply(p)
  \/ WeatherStatus
  \/ Tick

SpecWeather == Init /\ [][NextWeather]_vars

(* ------------------------------- claims -------------------------------- *)
\* The draft the browser's cookie holds, if any.
HasDraft == Has(session, "booking_data")
Draft == session["booking_data"]
Created == Len(bookings) - Len(SampleBookings)
NewestBooking == bookings[Len(bookings)]
NoDraftOutcome == {"no_booking_data", "redirect_step1"}
DraftOps == {"chooseProducts", "schedule", "confirm"}

\* C1 as stated: as long as no chooseService call was made, every
\* chooseProducts, schedule and confirm call fails with the no-draft outcome,
\* no Booking is created and the session holds no draft.
C1_Original ==
  (made.chooseService = 0 /\ last.op \in DraftOps)
    => /\ last.response \in NoDraftOutcome
       /\ Created = 0
       /\ ~HasDraft

\* C1 amended: as long as neither a chooseService call nor a visit of the
\* products page was made, every chooseProducts, schedule and confirm call
\* fails with the no-draft outcome, no Booking is created and the session
\* holds no draft.
C1_NoDraftBeforeAnyDraftCreation ==
  (made.chooseService = 0 /\ made.products = 0)
    => /\ last.op \in DraftOps => last.response \in NoDraftOutcome
       /\ Created = 0
       /\ ~HasDraft

C1_Witness ==
  /\ made.chooseService = 0 /\ made.products = 0
  /\ last.op = "schedule"
  /\ Has(last.data, "scheduled_date")
  /\ last.response = "no_booking_data"

\* C2: a step in which a confirm reports success adds exactly one Booking and
\* leaves no draft in the session; every other step (a failed confirm, any
\* other operation) leaves the Booking table as it was; so the number of
\* Bookings created stays equal to the number of confirm calls that reported
\* success.
C2_OneBookingPerSuccessfulConfirm ==
  [][/\ IF confirms' = confirms + 1
        THEN /\ Len(bookings') = Len(bookings) + 1
             /\ SubSeq(bookings', 1, Len(bookings)) = bookings
             /\ ~HasDraft'
        ELSE bookings' = bookings
     /\ Created' = confirms'
     /\ (last'.op = "confirm" /\ last'.response = "success") => ~HasDraft']_vars

C2_Witness ==
  /\ confirms = 1
  /\ Created = 1
  /\ last.op = "confirm"
  /\ last.response = "error_confirming"

\* The step answers a POST /booking/step4 (every request records its
\* operation in last; a step that changes nothing satisfies [A]_vars anyway).
ConfirmAnswered == last'.op = "confirm" /\ last'.seen = session

\* A draft on which confirm fails only if the commit fails.
Confirmable(bd) ==
  /\ ServiceExists(bd["service_id"])
  /\ Has(bd, "scheduled_date") /\ Has(bd, "scheduled_time")
  /\ Parses(bd["scheduled_date"], bd["scheduled_time"])
  /\ Get(bd, "products_total", 0) # PyNone

\* C3: a confirm made on a draft that does not report success reports
\* success:false, and leaves the Booking table and the draft in the session
\* exactly as they were before the call.
C3_FailedConfirmKeepsDraft ==
  [][(ConfirmAnswered /\ HasDraft /\ last'.response # "success")
       => /\ last'.response \in {"service_not_found", "error_confirming"}
          /\ bookings' = bookings
          /\ session' = session]_vars

\* a confirm failed at the commit, on a draft that was otherwise complete
C3_Witness ==
  /\ last.op = "confirm"
  /\ last.response = "error_confirming"
  /\ ~last.data["commit_ok"]
  /\ HasDraft
  /\ Confirmable(Draft)
  /\ Draft = last.seen["booking_data"]

\* C4: the Booking a successful confirm creates has total_price = the stored
\* price of the Service the draft refers to + the draft's products_total,
\* an absent or null products_total counting as 0, whatever price the draft
\* recorded at chooseService.
C4_TotalPrice ==
  (last.op = "confirm" /\ last.response = "success")
    => LET bd == last.seen["booking_data"]
           products_total == IF Has(bd, "products_total") /\ bd["products_total"] # PyNone
                             THEN bd["products_total"] ELSE 0
       IN NewestBooking.total_price = ServicePrice[bd["service_id"]] + products_total

\* a successful confirm on a draft whose recorded price is not the service's
C4_Witness ==
  /\ last.op = "confirm"
  /\ last.response = "success"
  /\ last.seen["booking_data"]["price"] # ServicePrice[last.seen["booking_data"]["service_id"]]
  /\ Get(last.seen["booking_data"], "products_total", 0) = 4599
  /\ NewestBooking.total_price = 11099

\* C5 as stated: once a confirm has succeeded, a confirm made with no
\* chooseService in between fails with the no-draft outcome and creates no
\* Booking.
C5_Original ==
  [][(ConfirmAnswered /\ confirms > 0 /\ "chooseService" \notin since)
       => (last'.response \in NoDraftOutcome /\ bookings' = bookings)]_vars

\* C5 amended: once a confirm has succeeded, a confirm made with neither a
\* chooseService call nor a visit of the products page in between fails with
\* the no-draft outcome and creates no Booking.
C5_SecondConfirmHasNoDraft ==
  [][(ConfirmAnswered /\ confirms > 0 /\ since = {})
       => (last'.response \in NoDraftOutcome /\ bookings' = bookings)]_vars

\* a second confirm was answered after a successful one, nothing that creates
\* a draft in between
C5_Witness ==
  /\ confirms > 0
  /\ since = {}
  /\ last.op = "confirm"
  /\ last.seen = EmptyDict
  /\ last.response = "redirect_step1"

\* C6: the four requests chooseService (of a stored service), chooseProducts,
\* schedule (well-formed date and time), confirm (commit not failing), made in
\* this order with nothing in between, end with confirm reporting success and
\* a Booking of the user for that service with status 'confirmed' and
\* total_price = service price + productsTotal.
C6_HappyPath ==
  Len(path) = 4
    => /\ last.response = "success"
       /\ NewestBooking.user_id = current_user_id
       /\ NewestBooking.service_id = path[1]["service_id"]
       /\ NewestBooking.status = "confirmed"
       /\ NewestBooking.total_price =
            ServicePrice[path[1]["service_id"]] + Get(path[2], "products_total", 0)

\* C7: after a chooseProducts or schedule call returned success:true, the
\* draft the user's next request receives holds the fields the call attached.
C7_AttachedFieldsCarriedOver ==
  /\ (last.op = "chooseProducts" /\ last.response = "success")
       => /\ HasDraft
          /\ Has(Draft, "products") /\ Has(Draft, "products_total")
          /\ Draft["products"] = last.data["products"]
          /\ Draft["products_total"] = Get(last.data, "products_total", 0)
  /\ (last.op = "schedule" /\ last.response = "success")
       => /\ HasDraft
          /\ Has(Draft, "scheduled_date") /\ Has(Draft, "scheduled_time")
          /\ Has(Draft, "special_instructions")
          /\ Draft["scheduled_date"] = last.data["scheduled_date"]
          /\ Draft["scheduled_time"] = last.data["scheduled_time"]
          /\ Draft["special_instructions"] = Get(last.data, "special_instructions", "")

\* C8: a draft holds schedule fields only if it holds a product selection;
\* schedule is accepted only on a draft that holds a product selection;
\* confirm succeeds only on a draft that holds a product selection and
\* schedule fields.
C8_MonotonicSteps ==
  /\ (HasDraft /\ Has(Draft, "scheduled_date")) => Has(Draft, "products")
  /\ (last.op = "schedule" /\ last.response = "success")
       => Has(last.seen["booking_data"], "products")
  /\ (last.op = "confirm" /\ last.response = "success")
       => /\ Has(last.seen["booking_data"], "products")
          /\ Has(last.seen["booking_data"], "scheduled_date")

\* C9: while the session holds a draft, no request removes a field the draft
\* holds, and no request for a step screen (GET) changes the draft.
C9_FieldsNeverRemoved ==
  [][(HasDraft /\ Has(session', "booking_data"))
       => /\ DOMAIN Draft \subseteq DOMAIN session'["booking_data"]
          /\ last'.op \in {"viewStep1", "viewStep2", "viewStep3", "viewStep4"}
               => session' = session]_vars

\* C10: no more Bookings are created than drafts were created (a draft is
\* consumed by at most one successful confirm).
C10_DraftConsumedOnce ==
  Created <= made.chooseService + made.products

Key(p) == cache_key(call[p].location)

\* The mapping worker p loaded holds an entry for the key less than two hours
\* old at the time of the load.
LoadedFresh(p) ==
  /\ Key(p) \in DOMAIN call[p].loaded
  /\ call[p].loaded_at - call[p].loaded[Key(p)].timestamp[2] < 2

\* Worker p has called the provider.
Fetched(p) == call[p].kind \notin {"none", "hit"}

\* What a reader of the file gets when the read itself does not fail.
Stored == load_weather_cache(cacheFile, TRUE)

\* C11: a request that loaded an entry for its key less than two hours old
\* answers with that entry's data and cached=true, never gets to the provider
\* call or to the save, and leaves its mapping as loaded; an answer with
\* cached=true always comes from such an entry, never from one aged two hours
\* or more.
C11_FastPath ==
  \A p \in Workers :
    /\ (call[p].pc \in {"fetch", "save_open", "save_write"}) => ~LoadedFresh(p)
    /\ (call[p].pc = "reply" /\ LoadedFresh(p))
         => /\ call[p].kind = "hit"
            /\ call[p].response.success
            /\ call[p].response.cached
            /\ call[p].response.data = call[p].loaded[Key(p)].data
            /\ call[p].cache = call[p].loaded
            /\ ~call[p].saved
    /\ (call[p].pc = "reply" /\ call[p].response.success /\ call[p].response.cached)
         => LoadedFresh(p)

C11_Witness ==
  \E p \in Workers :
    /\ call[p].pc = "reply"
    /\ call[p].kind = "hit"
    /\ call[p].loaded_at = call[p].loaded[Key(p)].timestamp[2] + 1
    /\ now = MaxTime
    /\ stats.outbound = 1

\* An entry for the key of worker p's request, written less than two hours
\* before the request loaded the cache, is on record.
WrittenRecently(p) ==
  /\ Key(p) \in DOMAIN stats.everCached
  /\ call[p].loaded_at - stats.everCached[Key(p)].timestamp[2] < 2

\* C12: of two getWeather calls for one location made less than two hours
\* apart, the first of which fetched from the provider and wrote its entry,
\* the second makes no provider call and answers with the first one's data
\* and cached=true: no request calls the provider while an entry for its key
\* written less than two hours before its load is on record, and a request
\* that then finds an entry answers with the data on record.
C12_OneProviderCall ==
  [][\A p \in Workers :
       /\ ~(/\ call[p].pc = "fetch"
            /\ call'[p].pc # "fetch"
            /\ WrittenRecently(p))
       /\ (/\ call[p].pc = "load"
           /\ call'[p].pc = "reply"
           /\ WrittenRecently(p)')
            => call'[p].response.data = stats.everCached[Key(p)].data]_vars

\* C13: getWeather is total: whatever the provider and the cache file do, the
\* response has success:true, and it is the mock response whenever the
\* provider supplied no data.
C13_Total ==
  \A p \in Workers :
    (call[p].pc = "reply")
      => /\ call[p].response.success
         /\ (Fetched(p) /\ call[p].kind # "ok")
              => /\ call[p].response.data = get_mock_weather_data(call[p].location)
                 /\ call[p].response.mock
                 /\ ~call[p].response.cached

C15_FetchedEntryStored ==
  \A p \in Workers :
    (call[p].pc = "reply" /\ call[p].kind = "ok")
      => /\ Key(p) \in DOMAIN Stored
         /\ Stored[Key(p)] = [data |-> call[p].response.data,
                              timestamp |-> << "iso", call[p].loaded_at >>]
         /\ call[p].response.success
         /\ ~call[p].response.cached
         /\ "mock" \notin DOMAIN call[p].response

\* C16: in every reachable state the cache file, if it exists, is a complete
\* JSON object: no reader can find it empty, truncated or torn.
C16_FileAlwaysComplete ==
  cacheFile.exists => IsJson(cacheFile.text)

\* C17: when save_weather_cache(m) returns, a load of the file returns m.
C17_RoundTrip ==
  [][\A p \in Workers :
       (/\ call[p].pc \in {"save_open", "save_write"}
        /\ call'[p].pc = "reply")
         => load_weather_cache(cacheFile', TRUE) = call[p].cache]_vars

\* C18: whenever no save is under way, every entry written so far is in the
\* file as it was written by the latest save for its key.
C18_NoEntryLost ==
  (\A p \in Workers : call[p].pc # "save_write")
    => \A k \in DOMAIN stats.everCached :
         /\ k \in DOMAIN Stored
         /\ Stored[k] = stats.everCached[k]

\* The data of no entry in the file is the mock data.
NoMockStored ==
  \A i \in DOMAIN cacheFile.text :
    (cacheFile.text[i].t = "member")
      => \A l \in LocationInputs :
           cacheFile.text[i].value.data # get_mock_weather_data(l)

\* C19: a step changes the cache file only if it is a step of the save of a
\* getWeather request that got the provider's data; status requests, requests
\* answered from the cache and requests answered with the mock data leave
\* the file as it is, and the mock data is never in the file.
C19_OnlySuccessfulFetchWrites ==
  [][/\ (cacheFile' # cacheFile)
          => \E p \in Workers :
               /\ call[p].kind = "ok"
               /\ call[p].pc \in {"save_open", "save_write"}
               /\ call'[p].pc # call[p].pc
               /\ wlast' = wlast
     /\ (wlast' # wlast) => cacheFile' = cacheFile
     /\ \A p \in Workers :
          (call'[p].pc = "reply" /\ call'[p].kind # "ok")
            => /\ call'[p].cache = call'[p].loaded
               /\ ~call'[p].saved
     /\ NoMockStored']_vars

C19_Witness ==
  /\ cacheFile.exists
  /\ Cardinality(DOMAIN Stored) = 1
  /\ \E p \in Workers :
       /\ call[p].pc = "reply"
       /\ call[p].kind = "status"
       /\ call[p].response.mock
       /\ call[p].loaded = Stored
       /\ Key(p) \notin DOMAIN Stored

====
